---- MODULE Spec2Model ----
(***************************************************************************)
(* Model of piorm.main.Base: a metadata-driven table mapper over one       *)
(* shared sqlite3 connection.  Python values, SQL cells and the sqlite     *)
(* engine's statement semantics are modelled explicitly; every operation    *)
(* of Base is one atomic action (the code is synchronous and commits each   *)
(* statement).                                                              *)
(***************************************************************************)
EXTENDS Integers, Sequences, FiniteSets, TLC

VARIABLES store, conn, env, last

vars == <<store, conn, env, last>>

(***************************************************************************)
(* Bounds                                                                  *)
(***************************************************************************)
\* Largest number of rows a table is allowed to grow to in the model.
MaxRows == 2

(***************************************************************************)
(* Python values / SQL cells.  One uniform record shape:                   *)
(*   t = "absent" : key not present in a dict                              *)
(*   t = "none"   : None / SQL NULL                                        *)
(*   t = "int"    : int / INTEGER, value in i                              *)
(*   t = "str"    : str / TEXT, value in s                                 *)
(*   t = "dict"   : dict, value in d as a set of <<key, int>> pairs        *)
(***************************************************************************)
Absent == [t |-> "absent", i |-> 0, s |-> "", d |-> {}]

None == [t |-> "none", i |-> 0, s |-> "", d |-> {}]

IntV(n) == [t |-> "int", i |-> n, s |-> "", d |-> {}]

StrV(x) == [t |-> "str", i |-> 0, s |-> x, d |-> {}]

DictV(x) == [t |-> "dict", i |-> 0, s |-> "", d |-> x]

EmptyDict == {}

DictA1 == {<<"a", 1>>}

\* The values json.loads is asked to recognise in the model.
JsonVals ==
  {None} \cup {IntV(n) : n \in -1..9} \cup {StrV(x) : x \in {"", "Bob", "Bobby", "x", "y"}}
         \cup {DictV(x) : x \in {EmptyDict, DictA1}}

\* json.dumps of a dict with at most one integer-valued key.
DumpDict(x) ==
  IF x = {} THEN "{}"
  ELSE LET p == CHOOSE q \in x : TRUE
       IN  "{\"" \o p[1] \o "\": " \o ToString(p[2]) \o "}"

\* Base.json_to_str: json.dumps(a), as a Python str.
json_to_str(a) ==
  CASE a.t = "dict" -> StrV(DumpDict(a.d))
    [] a.t = "int"  -> StrV(ToString(a.i))
    [] a.t = "str"  -> StrV("\"" \o a.s \o "\"")
    [] OTHER        -> StrV("null")

\* Variant: the decode step is skipped and the stored text is returned.
str_to_json_raw(a) == a

\* Base.str_to_json: None stays None, valid JSON text is parsed, anything
\* else (malformed text, a non-text cell) is swallowed into None.
str_to_json(a) ==
  IF a.t = "none" THEN None
  ELSE IF a.t = "str" /\ \E v \in JsonVals : json_to_str(v) = a
       THEN CHOOSE v \in JsonVals : json_to_str(v) = a
       ELSE None

(***************************************************************************)
(* Metadata descriptors (the meta_data dicts handed to every call).        *)
(***************************************************************************)
UsersMeta ==
  [ fields      |-> <<"id", "name", "meta">>,
    type        |-> [id |-> "int", name |-> "str", meta |-> "dict"],
    primary_key |-> <<"id">>,
    defaults    |-> [id |-> Absent, name |-> Absent, meta |-> Absent] ]

PairsMeta ==
  [ fields      |-> <<"a", "b", "n">>,
    type        |-> [a |-> "int", b |-> "str", n |-> "int"],
    primary_key |-> <<"a", "b">>,
    defaults    |-> [a |-> Absent, b |-> Absent, n |-> IntV(7)] ]

Tables == {"users", "pairs"}

MetaOf(tn) == IF tn = "users" THEN UsersMeta ELSE PairsMeta

Range(f) == {f[x] : x \in DOMAIN f}

FieldSet(md) == Range(md.fields)

PkSet(md) == Range(md.primary_key)

NoData == <<>>

(***************************************************************************)
(* Connection location                                                     *)
(***************************************************************************)
EnvUnset == [set |-> FALSE, val |-> ""]

EnvVal(p) == [set |-> TRUE, val |-> p]

FallbackPath == "/repo/db/peppermint.db"

TestPath == "/tmp/test_peppermint.db"

\* Path(p).expanduser().resolve()
ResolvePath(p) == IF p = "~/alt.db" THEN "/home/user/alt.db" ELSE p

EnvValues == {EnvUnset, EnvVal(""), EnvVal("~/alt.db"), EnvVal(TestPath)}

Paths == {FallbackPath, "/home/user/alt.db", TestPath}

NoConn == [open |-> FALSE, path |-> ""]

\* Variant: the handle is not cached; every call resolves and opens again.
get_conn_uncached(cn, ev) ==
  IF ev.set /\ ev.val # ""
  THEN [open |-> TRUE, path |-> ResolvePath(ev.val)]
  ELSE [open |-> TRUE, path |-> FallbackPath]

\* Base.get_conn: the cached handle if any, else open at the resolved path.
get_conn(cn, ev) ==
  IF cn.open THEN cn
  ELSE IF ev.set /\ ev.val # ""
       THEN [open |-> TRUE, path |-> ResolvePath(ev.val)]
       ELSE [open |-> TRUE, path |-> FallbackPath]

(***************************************************************************)
(* The sqlite engine: one database per path, each a map from table name to *)
(* schema and rows (rows in rowid order).                                  *)
(***************************************************************************)
NoTable == [exists |-> FALSE, cols |-> <<>>, pk |-> <<>>, rows |-> <<>>]

EmptyDb == [tn \in Tables |-> NoTable]

\* Column affinity applied to a bound value on storage.
Affinity(aff, v) ==
  IF aff = "TEXT" /\ v.t = "int" THEN StrV(ToString(v.i)) ELSE v

\* SQL equality in a WHERE clause: NULL equals nothing.
SqlEq(cell, p) == cell.t # "none" /\ p.t # "none" /\ cell = p

ColNames(tbl) == {tbl.cols[j].name : j \in DOMAIN tbl.cols}

ColOf(tbl, k) == tbl.cols[CHOOSE j \in DOMAIN tbl.cols : tbl.cols[j].name = k]

\* WHERE k1 = ? AND k2 = ? ... with the bound parameters.
Matches(tbl, where, row) ==
  \A j \in DOMAIN where : SqlEq(row[where[j].col], Affinity(ColOf(tbl, where[j].col).aff, where[j].val))

\* The row an INSERT builds: bound value, else column default, else NULL.
NewRow(tbl, assign) ==
  [k \in ColNames(tbl) |->
     IF \E j \in DOMAIN assign : assign[j].col = k
     THEN LET j == CHOOSE jj \in DOMAIN assign : assign[jj].col = k
          IN  Affinity(ColOf(tbl, k).aff, assign[j].val)
     ELSE ColOf(tbl, k).dflt]

\* PRIMARY KEY uniqueness: a conflict needs every key column non-NULL and equal.
PkConflict(tbl, row) ==
  \E j \in DOMAIN tbl.rows :
     \A c \in DOMAIN tbl.pk : SqlEq(tbl.rows[j][tbl.pk[c]], row[tbl.pk[c]])

\* cursor.execute(q, params) for a statement that changes the database.
\* Returns the error raised ("" if none) and the database afterwards.
Execute(db, q) ==
  LET tbl == db[q.table] IN
  CASE q.kind = "create_table" ->
         IF tbl.exists THEN [err |-> "", db |-> db]
         ELSE [err |-> "",
               db  |-> [db EXCEPT ![q.table] =
                          [exists |-> TRUE, cols |-> q.cols, pk |-> q.pk, rows |-> <<>>]]]
    [] q.kind = "drop_table" ->
         IF ~tbl.exists THEN [err |-> "OperationalError", db |-> db]
         ELSE [err |-> "", db |-> [db EXCEPT ![q.table] = NoTable]]
    [] q.kind = "insert" ->
         IF ~tbl.exists THEN [err |-> "OperationalError", db |-> db]
         ELSE IF PkConflict(tbl, NewRow(tbl, q.assign))
              THEN [err |-> "IntegrityError", db |-> db]
              ELSE [err |-> "",
                    db  |-> [db EXCEPT ![q.table].rows = Append(@, NewRow(tbl, q.assign))]]
    [] q.kind = "update" ->
         IF ~tbl.exists THEN [err |-> "OperationalError", db |-> db]
         ELSE [err |-> "",
               db  |-> [db EXCEPT ![q.table].rows =
                          [j \in DOMAIN @ |->
                             IF Matches(tbl, q.where, @[j])
                             THEN [k \in ColNames(tbl) |->
                                     IF \E a \in DOMAIN q.assign : q.assign[a].col = k
                                     THEN LET a == CHOOSE aa \in DOMAIN q.assign : q.assign[aa].col = k
                                          IN  Affinity(ColOf(tbl, k).aff, q.assign[a].val)
                                     ELSE @[j][k]]
                             ELSE @[j]]]]
    [] q.kind = "delete" ->
         IF ~tbl.exists THEN [err |-> "OperationalError", db |-> db]
         ELSE [err |-> "",
               db  |-> [db EXCEPT ![q.table].rows =
                          LET NoMatch(r) == ~Matches(tbl, q.where, r) IN SelectSeq(@, NoMatch)]]

\* cursor.execute(q, params); cursor.fetchone() for SELECT * ... WHERE.
Fetchone(db, q) ==
  LET tbl == db[q.table] IN
  IF ~tbl.exists THEN [err |-> "OperationalError", found |-> FALSE, row |-> <<>>]
  ELSE LET Hit(r) == Matches(tbl, q.where, r)
           hits == SelectSeq(tbl.rows, Hit) IN
       IF hits = <<>> THEN [err |-> "", found |-> FALSE, row |-> <<>>]
       ELSE [err |-> "", found |-> TRUE,
             row |-> [j \in DOMAIN tbl.cols |-> hits[1][tbl.cols[j].name]]]

(***************************************************************************)
(* Base                                                                    *)
(***************************************************************************)
\* str(value) as interpolated into the DDL text by the f-string.
PyStr(v) ==
  CASE v.t = "str"  -> v.s
    [] v.t = "int"  -> ToString(v.i)
    [] v.t = "dict" -> (IF v.d = {} THEN "{}"
                        ELSE LET p == CHOOSE q \in v.d : TRUE
                             IN  "{'" \o p[1] \o "': " \o ToString(p[2]) \o "}")
    [] OTHER        -> "None"

\* The column clause create_table emits for field k.
ColumnClause(md, k) ==
  IF md.type[k] = "int"
  THEN [name |-> k, aff |-> "INTEGER",
        dflt |-> IF md.defaults[k] = Absent THEN None ELSE md.defaults[k]]
  ELSE [name |-> k, aff |-> "TEXT",
        dflt |-> IF md.defaults[k] = Absent THEN None ELSE StrV(PyStr(md.defaults[k]))]

\* Base.manage_table: get_conn, execute, commit; errors propagate.
manage_table(cn, ev, st, q) ==
  LET c == get_conn(cn, ev)
      r == Execute(st[c.path], q)
  IN  [store |-> [st EXCEPT ![c.path] = r.db], conn |-> c,
       res |-> IF r.err = "" THEN "ok" ELSE r.err, row |-> <<>>]

\* Base.read_table: get_conn, execute, fetchone.
read_table(cn, ev, st, q) ==
  LET c == get_conn(cn, ev)
      r == Fetchone(st[c.path], q)
  IN  [store |-> st, conn |-> c,
       res |-> IF r.err # "" THEN r.err ELSE IF r.found THEN "row" ELSE "none",
       row |-> r.row]

\* What a call that never reaches the backend leaves behind.
Unreached(cn, st, res) == [store |-> st, conn |-> cn, res |-> res, row |-> <<>>]

\* Base.create_table: CREATE TABLE IF NOT EXISTS ... PRIMARY KEY (...)
create_table(cn, ev, st, tn, md) ==
  manage_table(cn, ev, st,
    [kind |-> "create_table", table |-> tn,
     cols |-> [j \in DOMAIN md.fields |-> ColumnClause(md, md.fields[j])],
     pk   |-> md.primary_key])

\* Variant: DROP TABLE IF EXISTS, a missing table is not an error.
delete_table_if_exists(cn, ev, st, tn) ==
  LET c == get_conn(cn, ev) IN
  [store |-> [st EXCEPT ![c.path][tn] = NoTable], conn |-> c, res |-> "ok", row |-> <<>>]

\* Base.delete_table: DROP TABLE
delete_table(cn, ev, st, tn) ==
  manage_table(cn, ev, st, [kind |-> "drop_table", table |-> tn])

\* Variant: only the presence of the key is tested, None passes.
check_primary_keys_present(data, md) ==
  \A k \in PkSet(md) : data[k].t # "absent"

\* Base.check_primary_keys: TRUE when no AssertionError is raised.
check_primary_keys(data, md) ==
  \A k \in PkSet(md) : data[k].t \notin {"absent", "none"}

\* The keys of data, in the order the loops visit them.
DataKeys(data, md) == SelectSeq(md.fields, LAMBDA k : data[k].t # "absent")

\* Parameter encoding shared by the CRUD helpers.
Encode(md, k, v) == IF md.type[k] = "dict" THEN json_to_str(v) ELSE v

\* Variant: the condition names only the first primary-key field.
get_primary_key_condition_first(data, md) ==
  [ok    |-> \A k \in PkSet(md) : data[k].t # "absent",
   where |-> << [col |-> md.primary_key[1],
                 val |-> Encode(md, md.primary_key[1], data[md.primary_key[1]])] >>]

\* Base.get_primary_key_condition: ok is FALSE when data[k] raises KeyError.
get_primary_key_condition(data, md) ==
  [ok    |-> \A k \in PkSet(md) : data[k].t # "absent",
   where |-> [j \in DOMAIN md.primary_key |->
                [col |-> md.primary_key[j],
                 val |-> Encode(md, md.primary_key[j], data[md.primary_key[j]])]]]

\* Variant: the empty dict is missing from the sentinel list.
IsSentinel_noDict(v) == v = StrV("") \/ v = IntV(-1)

\* data[k] in ["", -1, {}]
IsSentinel(v) == v = StrV("") \/ v = IntV(-1) \/ v = DictV({})

\* The (column, parameter) pairs callback_create inserts.
CreatePayload(data, md) ==
  LET keep == SelectSeq(DataKeys(data, md), LAMBDA k : ~IsSentinel(data[k]))
  IN  [j \in DOMAIN keep |-> [col |-> keep[j], val |-> Encode(md, keep[j], data[keep[j]])]]

\* Base.callback_create
callback_create(cn, ev, st, tn, data, md) ==
  IF ~check_primary_keys(data, md) THEN Unreached(cn, st, "AssertionError")
  ELSE IF CreatePayload(data, md) = <<>> THEN Unreached(cn, st, "ok")
  ELSE manage_table(cn, ev, st,
         [kind |-> "insert", table |-> tn, assign |-> CreatePayload(data, md)])

\* Base.callback_read
callback_read(cn, ev, st, tn, data, md) ==
  LET cond == get_primary_key_condition(data, md) IN
  IF ~cond.ok THEN Unreached(cn, st, "KeyError")
  ELSE LET r == read_table(cn, ev, st, [kind |-> "select", table |-> tn, where |-> cond.where])
           dict_mask == [j \in DOMAIN md.fields |-> md.type[md.fields[j]] = "dict"]
       IN  IF r.res # "row" THEN r
           ELSE [r EXCEPT !.row =
                   [j \in DOMAIN r.row |->
                      IF j <= Len(dict_mask) /\ dict_mask[j]
                      THEN str_to_json(r.row[j]) ELSE r.row[j]]]

\* Variant: the primary-key test is inverted, only key fields are assigned.
UpdatePayload_keys(data, md) ==
  LET keep == SelectSeq(DataKeys(data, md), LAMBDA k : k \in PkSet(md))
  IN  [j \in DOMAIN keep |-> [col |-> keep[j], val |-> Encode(md, keep[j], data[keep[j]])]]

\* The (column, parameter) pairs callback_update assigns.
UpdatePayload(data, md) ==
  LET keep == SelectSeq(DataKeys(data, md), LAMBDA k : k \notin PkSet(md))
  IN  [j \in DOMAIN keep |-> [col |-> keep[j], val |-> Encode(md, keep[j], data[keep[j]])]]

\* Base.callback_update
callback_update(cn, ev, st, tn, data, md) ==
  LET cond == get_primary_key_condition(data, md) IN
  IF ~cond.ok THEN Unreached(cn, st, "KeyError")
  ELSE IF UpdatePayload(data, md) = <<>> THEN Unreached(cn, st, "ok")
  ELSE manage_table(cn, ev, st,
         [kind |-> "update", table |-> tn, assign |-> UpdatePayload(data, md),
          where |-> cond.where])

\* Variant: the statement selects the row instead of deleting it.
callback_delete_select(cn, ev, st, tn, data, md) ==
  LET cond == get_primary_key_condition(data, md) IN
  IF ~cond.ok THEN Unreached(cn, st, "KeyError")
  ELSE LET r == read_table(cn, ev, st, [kind |-> "select", table |-> tn, where |-> cond.where])
       IN  [r EXCEPT !.res = IF @ \in {"row", "none"} THEN "ok" ELSE @, !.row = <<>>]

\* Base.callback_delete
callback_delete(cn, ev, st, tn, data, md) ==
  LET cond == get_primary_key_condition(data, md) IN
  IF ~cond.ok THEN Unreached(cn, st, "KeyError")
  ELSE manage_table(cn, ev, st, [kind |-> "delete", table |-> tn, where |-> cond.where])

(***************************************************************************)
(* Inputs                                                                  *)
(***************************************************************************)
Ids == {IntV(1), IntV(2)}

\* data dicts over the users metadata
UsersData(ids, names, metas) ==
  {[id |-> i, name |-> n, meta |-> m] : i \in ids, n \in names, m \in metas}

UsersCreateInputs ==
  UsersData({Absent, None, IntV(-1)} \cup Ids, {StrV(""), StrV("Bob")},
            {Absent, DictV(EmptyDict), DictV(DictA1)})

UsersUpdateInputs ==
  UsersData({Absent, None} \cup Ids, {Absent, StrV("Bobby")},
            {Absent, DictV(EmptyDict)})

UsersKeyInputs == UsersData({Absent, None} \cup Ids, {Absent}, {Absent})

(***************************************************************************)
(* State machine                                                           *)
(***************************************************************************)
\* The database the next backend call of the process reaches.
CurDb(cn, ev, st) == st[get_conn(cn, ev).path]

\* The row agrees with data on every primary-key field.
KeyEq(row, data, md) == \A k \in PkSet(md) : row[k] = data[k]

\* The table holds a row with data's primary key.
HasRow(tbl, data, md) == \E j \in DOMAIN tbl.rows : KeyEq(tbl.rows[j], data, md)

\* last: the most recent call, its arguments and outcome; had records whether
\* the table held a row with the call's key when the call was made.
InitLast == [op |-> "init", table |-> "", data |-> NoData, res |-> "ok", row |-> <<>>, had |-> FALSE]

Init ==
  /\ store = [p \in Paths |-> EmptyDb]
  /\ conn = NoConn
  /\ env = EnvVal(TestPath)
  /\ last = InitLast

\* The call's outcome keeps every table within the row bound.
Fits(r) == \A p \in Paths : \A t \in Tables : Len(r.store[p][t].rows) <= MaxRows

\* The record of a call, as kept in last.
Outcome(op, tn, data, r) ==
  [op |-> op, table |-> tn, data |-> data, res |-> r.res, row |-> r.row,
   had |-> data # NoData /\ HasRow(CurDb(conn, env, store)[tn], data, MetaOf(tn))]

CreateTable(tn) ==
  LET r == create_table(conn, env, store, tn, MetaOf(tn)) IN
  /\ Fits(r)
  /\ store' = r.store
  /\ conn' = r.conn
  /\ env' = env
  /\ last' = Outcome("create_table", tn, NoData, r)

DeleteTable(tn) ==
  LET r == delete_table(conn, env, store, tn) IN
  /\ Fits(r)
  /\ store' = r.store
  /\ conn' = r.conn
  /\ env' = env
  /\ last' = Outcome("delete_table", tn, NoData, r)

Create(tn, data) ==
  LET r == callback_create(conn, env, store, tn, data, MetaOf(tn)) IN
  /\ Fits(r)
  /\ store' = r.store
  /\ conn' = r.conn
  /\ env' = env
  /\ last' = Outcome("create", tn, data, r)

Read(tn, data) ==
  LET r == callback_read(conn, env, store, tn, data, MetaOf(tn)) IN
  /\ Fits(r)
  /\ store' = r.store
  /\ conn' = r.conn
  /\ env' = env
  /\ last' = Outcome("read", tn, data, r)

Update(tn, data) ==
  LET r == callback_update(conn, env, store, tn, data, MetaOf(tn)) IN
  /\ Fits(r)
  /\ store' = r.store
  /\ conn' = r.conn
  /\ env' = env
  /\ last' = Outcome("update", tn, data, r)

Delete(tn, data) ==
  LET r == callback_delete(conn, env, store, tn, data, MetaOf(tn)) IN
  /\ Fits(r)
  /\ store' = r.store
  /\ conn' = r.conn
  /\ env' = env
  /\ last' = Outcome("delete", tn, data, r)

Next ==
  \/ CreateTable("users")
  \/ DeleteTable("users")
  \/ \E data \in UsersCreateInputs : Create("users", data)
  \/ \E data \in UsersKeyInputs : Read("users", data)
  \/ \E data \in UsersUpdateInputs : Update("users", data)
  \/ \E data \in UsersKeyInputs : Delete("users", data)

Spec == Init /\ [][Next]_vars

\* data dicts over the pairs metadata (composite key a, b)
PairsData(as, bs, ns) == {[a |-> x, b |-> y, n |-> z] : x \in as, y \in bs, z \in ns}

PairsCreateInputs == PairsData({IntV(-1)} \cup Ids, {StrV("x"), StrV("y")}, {Absent})

PairsUpdateInputs ==
  PairsData({None} \cup Ids, {StrV("x"), StrV("y")}, {Absent, IntV(9)})

PairsKeyInputs == PairsData({Absent} \cup Ids, {StrV("x"), StrV("y")}, {Absent})

Bob1 == [id |-> IntV(1), name |-> StrV("Bob"), meta |-> DictV(DictA1)]

Bobby1 == [id |-> IntV(1), name |-> StrV("Bobby"), meta |-> Absent]

Key1 == [id |-> IntV(1), name |-> Absent, meta |-> Absent]

\* Two tables side by side: a composite-key table next to users.
NextPairs ==
  \/ CreateTable("pairs")
  \/ DeleteTable("pairs")
  \/ \E data \in PairsCreateInputs : Create("pairs", data)
  \/ \E data \in PairsKeyInputs : Read("pairs", data)
  \/ \E data \in PairsUpdateInputs : Update("pairs", data)
  \/ \E data \in PairsKeyInputs : Delete("pairs", data)
  \/ CreateTable("users")
  \/ Create("users", Bob1)
  \/ Delete("users", Key1)

SpecPairs == Init /\ [][NextPairs]_vars

\* The environment (os.environ, the test fixture's monkeypatch) sets or
\* clears CLASS_TO_SQL_DB at any time.
SetEnv(v) ==
  /\ v # env
  /\ env' = v
  /\ last' = [InitLast EXCEPT !.op = "setenv"]
  /\ UNCHANGED <<store, conn>>

InitEnv ==
  /\ store = [p \in Paths |-> EmptyDb]
  /\ conn = NoConn
  /\ env \in EnvValues
  /\ last = InitLast

NextEnv ==
  \/ \E v \in EnvValues : SetEnv(v)
  \/ CreateTable("users")
  \/ DeleteTable("users")
  \/ \E data \in {Bob1, Bobby1} : Create("users", data)
  \/ Read("users", Key1)
  \/ Update("users", Bobby1)
  \/ Delete("users", Key1)

SpecEnv == InitEnv /\ [][NextEnv]_vars

(***************************************************************************)
(* Vocabulary of the properties                                            *)
(***************************************************************************)
\* data reduced to its primary-key entries: the argument of a read by key.
KeyOf(data, md) == [k \in DOMAIN data |-> IF k \in PkSet(md) THEN data[k] ELSE Absent]

\* Every primary-key field is given a real (non-null, non-sentinel) value.
HasKey(data, md) ==
  \A k \in PkSet(md) : data[k].t \notin {"absent", "none"} /\ ~IsSentinel(data[k])

\* Some primary-key field is omitted or None.
KeyMissing(data, md) == \E k \in PkSet(md) : data[k].t \in {"absent", "none"}

\* callback_read of the key of data, issued in the given state.
ReadBack(cn, ev, st, tn, data) ==
  callback_read(cn, ev, st, tn, KeyOf(data, MetaOf(tn)), MetaOf(tn))

\* A field of data that carries a value the caller means to store.
Given(v) == v.t # "absent" /\ ~IsSentinel(v)

\* The last call was op on a table, handed a data dict.
LastIs(op) == last.op = op

(***************************************************************************)
(* C1  Create then Read returns what was inserted: when the table exists,  *)
(* data gives real values to the key and no row has that key, create       *)
(* succeeds and a read by the same key returns a row holding, at the       *)
(* position of every given field (metadata order), the given value.        *)
(***************************************************************************)
C1_CreateThenRead ==
  [][ (/\ last'.op = "create"
       /\ HasKey(last'.data, MetaOf(last'.table))
       /\ CurDb(conn, env, store)[last'.table].exists
       /\ ~HasRow(CurDb(conn, env, store)[last'.table], last'.data, MetaOf(last'.table)))
      => LET md == MetaOf(last'.table)
             r  == ReadBack(conn', env', store', last'.table, last'.data)
         IN  /\ last'.res = "ok"
             /\ r.res = "row"
             /\ Len(r.row) = Len(md.fields)
             /\ \A j \in DOMAIN md.fields :
                  Given(last'.data[md.fields[j]]) => r.row[j] = last'.data[md.fields[j]] ]_vars

C1_Witness ==
  /\ LastIs("create") /\ last.res = "ok"
  /\ last.data = [id |-> IntV(1), name |-> StrV("Bob"), meta |-> DictV(DictA1)]
  /\ ReadBack(conn, env, store, "users", last.data).row
       = <<IntV(1), StrV("Bob"), DictV(DictA1)>>

(***************************************************************************)
(* C2  Update then Read reflects the new value and keeps the key: for an   *)
(* existing row with key K, update with K and new values for non-key       *)
(* fields succeeds, a read by K returns a row with the new values at the   *)
(* fields' positions and K at the key positions; no update changes the     *)
(* primary-key columns of any row.                                         *)
(***************************************************************************)
C2_UpdateThenRead ==
  [][ last'.op = "update" =>
        LET md  == MetaOf(last'.table)
            old == CurDb(conn, env, store)[last'.table]
            new == CurDb(conn', env', store')[last'.table]
            r   == ReadBack(conn', env', store', last'.table, last'.data)
        IN  /\ Len(new.rows) = Len(old.rows)
            /\ \A j \in DOMAIN old.rows : \A k \in PkSet(md) : new.rows[j][k] = old.rows[j][k]
            /\ (HasKey(last'.data, md) /\ HasRow(old, last'.data, md))
                 => /\ last'.res = "ok"
                    /\ r.res = "row"
                    /\ \A j \in DOMAIN md.fields :
                         IF md.fields[j] \in PkSet(md)
                         THEN r.row[j] = last'.data[md.fields[j]]
                         ELSE last'.data[md.fields[j]].t # "absent"
                                => r.row[j] = last'.data[md.fields[j]] ]_vars

C2_Witness ==
  /\ LastIs("update") /\ last.res = "ok"
  /\ last.data = [id |-> IntV(1), name |-> StrV("Bobby"), meta |-> DictV(EmptyDict)]
  /\ ReadBack(conn, env, store, "users", last.data).row
       = <<IntV(1), StrV("Bobby"), DictV(EmptyDict)>>

(***************************************************************************)
(* C3  Delete then Read returns not found: right after a delete by key K   *)
(* that the backend carried out, a read by K returns the absent result,    *)
(* neither a row nor an error.                                             *)
(***************************************************************************)
C3_DeleteThenRead ==
  [][ last'.op = "delete" =>
        /\ (CurDb(conn, env, store)[last'.table].exists /\ ~KeyMissing(last'.data, MetaOf(last'.table))
              => last'.res = "ok")
        /\ (last'.res = "ok"
              => ReadBack(conn', env', store', last'.table, last'.data).res = "none") ]_vars

C3_Witness ==
  /\ LastIs("delete") /\ last.res = "ok" /\ last.data.id = IntV(1)
  /\ last.had
  /\ ReadBack(conn, env, store, "users", last.data).res = "none"

(***************************************************************************)
(* C4  (as stated) creating a row whose structured-document field is {}    *)
(* and reading it back yields an empty structured value at that position.  *)
(***************************************************************************)
C4_EmptyDictRoundTrips ==
  (LastIs("create") /\ last.res = "ok" /\ HasKey(last.data, MetaOf(last.table)))
    => LET md == MetaOf(last.table)
           r  == ReadBack(conn, env, store, last.table, last.data)
       IN  \A j \in DOMAIN md.fields :
             (md.type[md.fields[j]] = "dict" /\ last.data[md.fields[j]] = DictV(EmptyDict))
               => (r.res = "row" /\ r.row[j] = DictV(EmptyDict))

(***************************************************************************)
(* C4  (amended) on create, {} in a structured-document field counts as    *)
(* "not provided": with no declared default the row read back holds None   *)
(* at that position, while a non-empty structured value reads back equal.  *)
(***************************************************************************)
C4_EmptyDictNotStored ==
  (LastIs("create") /\ last.res = "ok" /\ HasKey(last.data, MetaOf(last.table)))
    => LET md == MetaOf(last.table)
           r  == ReadBack(conn, env, store, last.table, last.data)
       IN  \A j \in DOMAIN md.fields :
             (md.type[md.fields[j]] = "dict" /\ last.data[md.fields[j]].t = "dict")
               => /\ r.res = "row"
                  /\ r.row[j] = IF last.data[md.fields[j]] = DictV(EmptyDict)
                                THEN (IF md.defaults[md.fields[j]] = Absent THEN None
                                      ELSE str_to_json(StrV(PyStr(md.defaults[md.fields[j]]))))
                                ELSE last.data[md.fields[j]]

C4_Witness ==
  /\ LastIs("create") /\ last.res = "ok"
  /\ last.data = [id |-> IntV(1), name |-> StrV("Bob"), meta |-> DictV(EmptyDict)]
  /\ ReadBack(conn, env, store, "users", last.data).row = <<IntV(1), StrV("Bob"), None>>

(***************************************************************************)
(* C5  Create without a primary key fails before touching the backend:     *)
(* when data omits a key field or maps it to None, the call raises the     *)
(* validation error and leaves the connection and every table as they were.*)
(***************************************************************************)
C5_CreateWithoutKey ==
  [][ (last'.op = "create" /\ KeyMissing(last'.data, MetaOf(last'.table)))
        => (last'.res = "AssertionError" /\ store' = store /\ conn' = conn) ]_vars

C5_Witness ==
  /\ LastIs("create") /\ last.res = "AssertionError"
  /\ last.data = [id |-> None, name |-> StrV("Bob"), meta |-> DictV(DictA1)]
  /\ ~conn.open

(***************************************************************************)
(* C6  Sentinel values mean "field not provided" in Create and in Update:  *)
(* a call whose input carries "", {} or -1 in a field leaves the store as  *)
(* the same call without that field would.                                 *)
(***************************************************************************)
StripSentinels(data, md) ==
  [k \in DOMAIN data |-> IF k \notin PkSet(md) /\ IsSentinel(data[k]) THEN Absent ELSE data[k]]

C6_SentinelsNotProvided ==
  [][ /\ last'.op = "create"
        => store' = callback_create(conn, env, store, last'.table,
                      StripSentinels(last'.data, MetaOf(last'.table)), MetaOf(last'.table)).store
      /\ last'.op = "update"
        => store' = callback_update(conn, env, store, last'.table,
                      StripSentinels(last'.data, MetaOf(last'.table)), MetaOf(last'.table)).store ]_vars

(***************************************************************************)
(* C7  Stored rows always have a non-null primary key: every row of every  *)
(* table holds a non-null value in each primary-key column.                *)
(***************************************************************************)
C7_KeysNeverNull ==
  \A p \in Paths : \A tn \in Tables :
    \A j \in DOMAIN store[p][tn].rows :
      \A c \in DOMAIN store[p][tn].pk : store[p][tn].rows[j][store[p][tn].pk[c]].t # "none"

(***************************************************************************)
(* C9  Dropping a table that does not exist raises the backend's error and *)
(* changes nothing; dropping an existing table removes it (and only it).   *)
(***************************************************************************)
C9_DropTable ==
  [][ last'.op = "delete_table" =>
        IF CurDb(conn, env, store)[last'.table].exists
        THEN /\ last'.res = "ok"
             /\ store' = [store EXCEPT ![conn'.path][last'.table] = NoTable]
        ELSE /\ last'.res = "OperationalError"
             /\ store' = store ]_vars

C9_Witness ==
  /\ LastIs("delete_table") /\ last.res = "OperationalError"
  /\ conn.open /\ ~store[conn.path]["users"].exists

(***************************************************************************)
(* C8  The connection is opened exactly once: the handle starts unset, the *)
(* first call that reaches the backend opens it at the path resolved from  *)
(* the override as it is then (a non-empty override, else the fallback),   *)
(* and from then on the handle never changes and only that store is        *)
(* touched, whatever the override is changed to.                           *)
(***************************************************************************)
ReachesBackend(l) ==
  \/ l.op \in {"create_table", "delete_table", "read", "delete"}
  \/ l.op \in {"create", "update"} /\ l.res \notin {"AssertionError", "KeyError"}
       /\ \E k \in DOMAIN l.data : k \notin PkSet(MetaOf(l.table)) /\ Given(l.data[k])

C8_ConnectionOpenedOnce ==
  /\ ~conn.open
  /\ [][ /\ conn.open => conn' = conn
         /\ (~conn.open /\ conn'.open)
              => conn'.path = IF env.set /\ env.val # "" THEN ResolvePath(env.val)
                              ELSE FallbackPath
         /\ (last'.op # "setenv" /\ ReachesBackend(last')) => conn'.open
         /\ \A p \in Paths : store'[p] # store[p] => (conn'.open /\ p = conn'.path) ]_vars

C8_Witness ==
  /\ conn.open /\ conn.path = ResolvePath("~/alt.db")
  /\ env = EnvVal(TestPath)
  /\ LastIs("read") /\ last.res = "row"
  /\ store[TestPath] = EmptyDb

(***************************************************************************)
(* C10  Update and Delete touch only the row identified by the full        *)
(* primary key: rows that differ from the key on some key field, and every *)
(* other table, are unchanged; the row that equals the key on all key      *)
(* fields is the one updated or removed; an update never adds a row.       *)
(***************************************************************************)
C10_OnlyTheKeyedRow ==
  [][ last'.op \in {"update", "delete"} =>
        LET md  == MetaOf(last'.table)
            old == CurDb(conn, env, store)[last'.table]
            new == CurDb(conn', env', store')[last'.table]
            Other(r) == ~KeyEq(r, last'.data, md)
        IN  /\ \A p \in Paths : \A tn \in Tables :
                 (p # conn'.path \/ tn # last'.table) => store'[p][tn] = store[p][tn]
            /\ last'.op = "update" =>
                 /\ Len(new.rows) = Len(old.rows)
                 /\ \A j \in DOMAIN old.rows :
                      /\ Other(old.rows[j]) => new.rows[j] = old.rows[j]
                      /\ (~Other(old.rows[j]) /\ HasKey(last'.data, md)) =>
                           \A k \in FieldSet(md) :
                             new.rows[j][k] = IF k \in PkSet(md) \/ last'.data[k].t = "absent"
                                              THEN old.rows[j][k] ELSE last'.data[k]
            /\ last'.op = "delete" =>
                 /\ SelectSeq(new.rows, Other) = SelectSeq(old.rows, Other)
                 /\ HasKey(last'.data, md) => new.rows = SelectSeq(old.rows, Other) ]_vars

C10_Witness ==
  /\ LastIs("update") /\ last.res = "ok" /\ last.table = "pairs" /\ last.had
  /\ last.data = [a |-> IntV(1), b |-> StrV("x"), n |-> IntV(9)]
  /\ store[conn.path]["pairs"].rows
       = << [a |-> IntV(1), b |-> StrV("y"), n |-> IntV(7)],
            [a |-> IntV(1), b |-> StrV("x"), n |-> IntV(9)] >>
  /\ Len(store[conn.path]["users"].rows) = 1

====
